---- MODULE Spec2Model ----
(***************************************************************************)
(* A model of gb580.py: the serial protocol driver of the Globalsat GB-580 *)
(* watch.  The session of __main__ (whoAmI, getTracklist, getTracks, lap   *)
(* retrieval, point retrieval) is a state machine whose steps are the      *)
(* channel writes and the blocking reads; the decoders are operators over  *)
(* hexadecimal text, which is what the program decodes.                    *)
(*                                                                         *)
(* Hexadecimal text is a sequence of digits 0..15; raw channel data is a   *)
(* sequence of bytes 0..255.  Intervals are integers in tenths of a second *)
(* and instants count from 2000-01-01 00:00:00 (the device's year 0).      *)
(***************************************************************************)
EXTENDS Integers, Sequences, FiniteSets, TLC

\* ------------------------------------------------------------------------
\* Program constants (gb580.py lines 30-37)

TIME_OFFSET == 2
TRACK_HEADER_LEN == 48
TRACK_POINT_LEN == 64
TRACK_LAP_LEN == 80
TRACKPTS_PER_SECTION == 63
SECTION_LEN == 4080

\* The value of an attribute that holds None or was never assigned.
NoneVal == -1

\* The size read_serial asks of serial.read: its default, used by get_model
\* and read_tracklist, and the size read_track, read_laps and read_trackpoints
\* pass.
DEFAULT_READ_SIZE == 2070

TRACK_READ_SIZE == 2075

\* ------------------------------------------------------------------------
\* Bounds of the model

\* Reads of one session (the cap on the session's read counter).
MaxReads == 8

\* Bytes of the longest catalog response handed to process_tracklist directly.
MaxCatalogLen == 60

\* ------------------------------------------------------------------------
\* Python slices on sequences: s[a:b], s[a:], s[a:-k]

Min(a, b) == IF a < b THEN a ELSE b

Max(a, b) == IF a > b THEN a ELSE b

PySlice(s, a, b) == SubSeq(s, a + 1, Min(b, Len(s)))

PyFrom(s, a) == SubSeq(s, a + 1, Len(s))

PySliceNeg(s, a, k) == SubSeq(s, a + 1, Len(s) - k)

\* ------------------------------------------------------------------------
\* Utilities

RECURSIVE HexDigits(_)
\* "%X" % n : the digits of n, most significant first, "0" for 0.
HexDigits(n) == IF n < 16 THEN <<n>> ELSE Append(HexDigits(n \div 16), n % 16)

\* str.rjust(pad, '0')[:pad]
RjustCut(h, pad) ==
    LET padded == [i \in 1..Max(pad - Len(h), 0) |-> 0] \o h
    IN  SubSeq(padded, 1, pad)

\* A variant of dec2hex that writes the padded text least significant byte
\* first.
dec2hex_swapped(n, pad) ==
    LET h == RjustCut(HexDigits(n), pad)
    IN  IF pad = 0 THEN HexDigits(n)
        ELSE [i \in 1..Len(h) |-> h[Len(h) - 2 * ((i - 1) \div 2) - 1 + ((i - 1) % 2)]]

\* Utilities.dec2hex(n, pad); pad = 0 stands for pad = False.
dec2hex(n, pad) == IF pad = 0 THEN HexDigits(n) ELSE RjustCut(HexDigits(n), pad)

RECURSIVE HexVal(_, _)
HexVal(s, acc) == IF s = <<>> THEN acc ELSE HexVal(Tail(s), 16 * acc + Head(s))

\* Utilities.hex2dec: the empty text decodes to 0.
hex2dec(s) == IF s = <<>> THEN 0 ELSE HexVal(s, 0)

\* Python's int(s, 16): ValueError on the empty text.
IntErr == -2

int16(s) == IF s = <<>> THEN IntErr ELSE HexVal(s, 0)

RECURSIVE hex2chr(_)
\* Utilities.hex2chr: one byte per two digits; a last single digit is a byte too.
hex2chr(h) ==
    IF h = <<>> THEN <<>>
    ELSE <<hex2dec(PySlice(h, 0, 2))>> \o hex2chr(PyFrom(h, 2))

\* Utilities.chr2hex: '%02X' of every byte.
chr2hex(bytes) ==
    [i \in 1..(2 * Len(bytes)) |->
        IF i % 2 = 1 THEN bytes[(i + 1) \div 2] \div 16 ELSE bytes[i \div 2] % 16]

RECURSIVE BitXor(_, _)
\* Python's ^ on non-negative integers.
BitXor(a, b) ==
    IF a = 0 THEN b
    ELSE IF b = 0 THEN a
    ELSE ((a + b) % 2) + 2 * BitXor(a \div 2, b \div 2)

RECURSIVE XorPairs(_, _)
XorPairs(h, acc) ==
    IF h = <<>> THEN acc
    ELSE XorPairs(PyFrom(h, 2), BitXor(acc, HexVal(PySlice(h, 0, 2), 0)))

\* Utilities.checkersum: XOR of the digit pairs, as unpadded hexadecimal text.
checkersum(h) == dec2hex(XorPairs(h, 0), 0)

\* A variant of chop that rounds the count of chunks down.
chop_floor(s, chunk) ==
    [i \in 1..(Len(s) \div chunk) |-> PySlice(s, (i - 1) * chunk, i * chunk)]

\* Utilities.chop: Python 2 integer division.
chop(s, chunk) ==
    [i \in 1..((Len(s) + chunk - 1) \div chunk) |->
        PySlice(s, (i - 1) * chunk, i * chunk)]

\* A variant of read_int16 that parses the text as it stands, without the swap.
read_int16_noswap(h) == hex2dec(PySlice(h, 0, 4))

read_int16(h) == hex2dec(PySlice(h, 2, 4) \o PySlice(h, 0, 2))

read_int32(h) ==
    hex2dec(PySlice(h, 6, 8) \o PySlice(h, 4, 6) \o PySlice(h, 2, 4) \o PySlice(h, 0, 2))

\* Utilities.read_int32 where the value may reach 2^31 and over: the same
\* number, hex2dec of the swapped text, held as its two 16-bit halves
\* (the number is 65536 * hi + lo).
read_int32_wide(h) ==
    [hi |-> hex2dec(PySlice(h, 6, 8) \o PySlice(h, 4, 6)),
     lo |-> hex2dec(PySlice(h, 2, 4) \o PySlice(h, 0, 2))]

\* datetime.datetime(...) accepts exactly the valid calendar dates and times.
IsLeap(y) == (y % 4 = 0 /\ y % 100 # 0) \/ y % 400 = 0

DaysInMonth(y, m) ==
    IF m = 2 THEN (IF IsLeap(y) THEN 29 ELSE 28)
    ELSE IF m \in {4, 6, 9, 11} THEN 30 ELSE 31

ValidDateTime(d) ==
    /\ d.year \in 1..9999
    /\ d.month \in 1..12
    /\ d.day >= 1 /\ d.day <= DaysInMonth(d.year, d.month)
    /\ d.hour \in 0..23
    /\ d.minute \in 0..59
    /\ d.second \in 0..59

\* Utilities.read_datetime: the arguments handed to datetime.datetime; the
\* time zone object is attached and takes no part in the arithmetic.
read_datetime(h) ==
    [year   |-> 2000 + hex2dec(PySlice(h, 0, 2)),
     month  |-> hex2dec(PySlice(h, 2, 4)),
     day    |-> hex2dec(PySlice(h, 4, 6)),
     hour   |-> hex2dec(PySlice(h, 6, 8)) - TIME_OFFSET,
     minute |-> hex2dec(PySlice(h, 8, 10)),
     second |-> hex2dec(PySlice(h, 10, 12))]

\* datetime arithmetic: the days of a valid datetime since 2000-01-01.
LeapsBefore(y) ==
    ((y - 1) \div 4 - 1999 \div 4) - ((y - 1) \div 100 - 1999 \div 100)
        + ((y - 1) \div 400 - 1999 \div 400)

RECURSIVE DaysBeforeMonth(_, _)
DaysBeforeMonth(y, m) ==
    IF m = 1 THEN 0 ELSE DaysBeforeMonth(y, m - 1) + DaysInMonth(y, m - 1)

\* A running time is whole seconds since 2000-01-01 00:00:00 and tenths 0..9.
Instant(d) ==
    LET days == 365 * (d.year - 2000) + LeapsBefore(d.year)
                  + DaysBeforeMonth(d.year, d.month) + (d.day - 1)
    IN  [s |-> ((days * 24 + d.hour) * 60 + d.minute) * 60 + d.second, t |-> 0]

\* act_time + timedelta of d tenths of a second.
AddTenths(act, d) ==
    LET total == act.t + d
    IN  [s |-> act.s + (total \div 10), t |-> total % 10]

\* act_time.strftime("%Y-%m-%dT%H:%M:%SZ"): the text names the whole second
\* of the instant; the tenths are not printed.  The text is identified with
\* the count of whole seconds it denotes.
strftime(act) == act.s

\* ------------------------------------------------------------------------
\* TrackPoint

\* A variant of process_trackpoint that formats the timestamp before it adds
\* the interval.
process_trackpoint_stamp_first(data, act_time) ==
    LET interval == read_int32(PyFrom(data, 40))
        now      == AddTenths(act_time, interval)
    IN  [tp |-> [latitude      |-> read_int32_wide(PyFrom(data, 0)),
                 longitude     |-> read_int32_wide(PyFrom(data, 8)),
                 altitude      |-> read_int16(PyFrom(data, 16)),
                 speed         |-> read_int32(PyFrom(data, 24)),
                 hr            |-> int16(PySlice(data, 32, 34)),
                 interval_time |-> interval,
                 timestamp     |-> strftime(act_time),
                 cadence       |-> read_int16(PyFrom(data, 48)),
                 power_cad     |-> read_int16(PyFrom(data, 52)),
                 power         |-> read_int16(PyFrom(data, 56))],
         act_time |-> now]

\* TrackPoint.process_trackpoint(data, act_time): the decoded point and the new
\* running time.  latitude and longitude are kept in 1e-6 degree, as the two
\* halves of the number read_int32 returns, speed in 0.01 km/h and
\* interval_time in 0.1 s (the program divides them into floats).
\* timedelta(milliseconds = interval_time * 1000) is interval tenths exactly:
\* the float product is within 1e-4 ms of a whole 100 ms and timedelta rounds
\* to the microsecond.
process_trackpoint(data, act_time) ==
    LET interval == read_int32(PyFrom(data, 40))
        now      == AddTenths(act_time, interval)
    IN  [tp |-> [latitude      |-> read_int32_wide(PyFrom(data, 0)),
                 longitude     |-> read_int32_wide(PyFrom(data, 8)),
                 altitude      |-> read_int16(PyFrom(data, 16)),
                 speed         |-> read_int32(PyFrom(data, 24)),
                 hr            |-> int16(PySlice(data, 32, 34)),
                 interval_time |-> interval,
                 timestamp     |-> strftime(now),
                 cadence       |-> read_int16(PyFrom(data, 48)),
                 power_cad     |-> read_int16(PyFrom(data, 52)),
                 power         |-> read_int16(PyFrom(data, 56))],
         act_time |-> now]

\* ------------------------------------------------------------------------
\* TrackLap

\* A variant of process_lap that reads the two point indexes 2 bytes early.
process_lap_early_index(data) ==
    [end_time       |-> read_int32(PyFrom(data, 0)),
     lap_time       |-> read_int32(PyFrom(data, 8)),
     distance       |-> read_int32(PyFrom(data, 16)),
     calories       |-> read_int16(PyFrom(data, 24)),
     max_speed      |-> read_int32(PyFrom(data, 32)),
     max_hr         |-> int16(PySlice(data, 40, 42)),
     avg_hr         |-> int16(PySlice(data, 42, 44)),
     min_altitude   |-> read_int16(PyFrom(data, 44)),
     max_altitude   |-> read_int16(PyFrom(data, 48)),
     avg_cadence    |-> read_int16(PyFrom(data, 52)),
     max_cadence    |-> read_int16(PyFrom(data, 56)),
     avg_power      |-> read_int16(PyFrom(data, 60)),
     max_power      |-> read_int16(PyFrom(data, 64)),
     start_pt_index |-> read_int16(PyFrom(data, 68)),
     end_pt_index   |-> read_int16(PyFrom(data, 72))]

\* TrackLap.process_lap(data): end_time and lap_time in 0.1 s, max_speed in
\* 0.01 km/h.
process_lap(data) ==
    [end_time       |-> read_int32(PyFrom(data, 0)),
     lap_time       |-> read_int32(PyFrom(data, 8)),
     distance       |-> read_int32(PyFrom(data, 16)),
     calories       |-> read_int16(PyFrom(data, 24)),
     max_speed      |-> read_int32(PyFrom(data, 32)),
     max_hr         |-> int16(PySlice(data, 40, 42)),
     avg_hr         |-> int16(PySlice(data, 42, 44)),
     min_altitude   |-> read_int16(PyFrom(data, 44)),
     max_altitude   |-> read_int16(PyFrom(data, 48)),
     avg_cadence    |-> read_int16(PyFrom(data, 52)),
     max_cadence    |-> read_int16(PyFrom(data, 56)),
     avg_power      |-> read_int16(PyFrom(data, 60)),
     max_power      |-> read_int16(PyFrom(data, 64)),
     start_pt_index |-> read_int16(PyFrom(data, 72)),
     end_pt_index   |-> read_int16(PyFrom(data, 76))]

\* ------------------------------------------------------------------------
\* The device: what the watch may put on the channel.

\* The lap response documented in read_laps and in the TrackLap layout
\* comment: status byte, payload length 0x0158, the 24-byte track header,
\* 8 laps of 40 bytes, one checksum byte.
DocLapResponse ==
    <<128, 1, 88, 14, 10, 29, 18, 42, 44, 54, 7, 100, 152, 0, 0, 30, 118, 0, 0, 8, 0, 0, 0, 7,
      0, 170, 0, 89, 22, 0, 0, 89, 22, 0, 0, 110, 14, 0, 0, 81, 0, 0, 0, 26, 14, 0, 0, 149,
      125, 135, 0, 135, 0, 95, 0, 105, 0, 0, 0, 0, 0, 0, 0, 0, 0, 14, 1, 218, 56, 0, 0, 129,
      34, 0, 0, 206, 28, 0, 0, 171, 0, 0, 0, 211, 14, 0, 0, 169, 151, 134, 0, 135, 0, 91, 0, 107,
      0, 0, 0, 0, 0, 0, 0, 14, 1, 176, 2, 136, 75, 0, 0, 174, 18, 0, 0, 185, 15, 0, 0, 101,
      0, 0, 0, 39, 14, 0, 0, 168, 162, 134, 0, 134, 0, 77, 0, 89, 0, 0, 0, 0, 0, 0, 0, 176,
      2, 146, 3, 109, 86, 0, 0, 229, 10, 0, 0, 38, 8, 0, 0, 50, 0, 0, 0, 32, 11, 0, 0, 165,
      143, 134, 0, 134, 0, 84, 0, 91, 0, 0, 0, 0, 0, 0, 0, 146, 3, 22, 4, 37, 105, 0, 0, 184,
      18, 0, 0, 218, 16, 0, 0, 108, 0, 0, 0, 100, 16, 0, 0, 177, 170, 134, 0, 134, 0, 83, 0, 106,
      0, 0, 0, 0, 0, 0, 0, 22, 4, 248, 4, 143, 116, 0, 0, 106, 11, 0, 0, 59, 8, 0, 0, 55,
      0, 0, 0, 250, 11, 0, 0, 176, 147, 134, 0, 134, 0, 88, 0, 100, 0, 0, 0, 0, 0, 0, 0, 248,
      4, 130, 5, 133, 135, 0, 0, 246, 18, 0, 0, 111, 15, 0, 0, 111, 0, 0, 0, 96, 17, 0, 0, 180,
      173, 134, 0, 134, 0, 79, 0, 97, 0, 0, 0, 0, 0, 0, 0, 130, 5, 103, 6, 100, 152, 0, 0, 223,
      16, 0, 0, 123, 10, 0, 0, 78, 0, 0, 0, 152, 10, 0, 0, 180, 144, 134, 0, 134, 0, 88, 0, 100,
      0, 0, 0, 0, 0, 0, 0, 103, 6, 53, 7, 101>>

Take(s, n) == SubSeq(s, 1, Min(n, Len(s)))

Zeros(n) == [i \in 1..n |-> 0]

RECURSIVE Repeat(_, _)
Repeat(s, n) == IF n = 0 THEN <<>> ELSE s \o Repeat(s, n - 1)

\* Little-endian fields as the device stores them.
LE32(v) == <<v % 256, (v \div 256) % 256, (v \div 65536) % 256, (v \div 16777216) % 256>>

\* The interval, in 0.1 s, the device reports for the j-th point of a segment.
DeviceInterval(j) == 3 + ((7 * j) % 40)

\* One 32-byte point record: the documented sample point with its interval.
DevicePoint(j) ==
    <<253, 224, 193, 2,  208, 137, 51, 1,  77, 0,  0, 0,  216, 7, 0, 0,
      120,  0, 0, 0>> \o LE32(DeviceInterval(j)) \o <<86, 0,  0, 0,  0, 0,  0, 0>>

RECURSIVE DevicePoints(_, _)
DevicePoints(j, n) == IF j > n THEN <<>> ELSE DevicePoint(j) \o DevicePoints(j + 1, n)

\* A point segment: 3 status bytes, the 24-byte header echo, n points,
\* slack bytes and the trailing status bytes.
PointSegment(shape) ==
    LET payload == 24 + 32 * shape.n + shape.slack
    IN  <<128, payload \div 256, payload % 256>> \o SubSeq(DocLapResponse, 4, 27)
            \o DevicePoints(1, shape.n) \o Zeros(shape.slack) \o Zeros(shape.trail)

\* The segment of a transfer with more to come: a whole section and the
\* checksum byte.
FullShape == [n |-> TRACKPTS_PER_SECTION, slack |-> 0, trail |-> 1]

\* Segments that end a transfer.
LastShapes ==
    { [n |-> 0, slack |-> 0, trail |-> 1],
      [n |-> 1, slack |-> 0, trail |-> 1],
      [n |-> 2, slack |-> 5, trail |-> 1],
      [n |-> TRACKPTS_PER_SECTION, slack |-> 0, trail |-> 2] }

\* The bytes of a full section on the wire: status prefix, section, checksum.
FullResponseLen == 3 + (SECTION_LEN \div 2) + 1

\* Lap responses: none (timeout), the documented one, and one as long as a
\* full section (50 laps).
LapResponses ==
    { <<>>,
      DocLapResponse,
      Take(DocLapResponse, 27) \o Repeat(SubSeq(DocLapResponse, 28, 67), 50) \o Zeros(17) }

\* A response with the hour byte of its date replaced.
WithHour(resp, h) == [resp EXCEPT ![7] = h]

\* getTracks responses: none (timeout), the documented header cut after the
\* date, cut inside the aggregates, whole, and whole with a start before 2 am.
TrackResponses ==
    { <<>>,
      Take(DocLapResponse, 9),
      Take(DocLapResponse, 43),
      Take(DocLapResponse, 54),
      WithHour(Take(DocLapResponse, 54), 1) }

\* One catalog entry, documented in process_tracklist, and its checksum byte.
DocCatalogEntry ==
    <<14, 10, 29, 18, 42, 44,  184, 6,  36, 141, 0, 0,  105, 91, 0, 0,
      1, 0,  202, 0,  8, 0,  0, 0>>

\* getTracklist responses: none (timeout), an error code, one entry, and two
\* entries with the second cut short.
TracklistResponses ==
    { <<>>,
      <<128, 0, 1, 0>>,
      <<128, 0, 24>> \o DocCatalogEntry \o <<232>>,
      <<128, 0, 34>> \o DocCatalogEntry \o Take(DocCatalogEntry, 10) \o <<0>> }

\* whoAmI responses: none (timeout) and "GB-580P".
ModelResponses ==
    { <<>>, <<128, 0, 7,  71, 66, 45, 53, 56, 48, 80,  0>> }

\* Track ids asked of read_track.
TrackIds == {0, 8, 1409, 4660, 65535}

\* ------------------------------------------------------------------------
\* GB580

\* GB580.COMMANDS: the fixed commands the session sends.
COMMANDS(name) ==
    CASE name = "getTracklist"            -> <<0, 2, 0, 0, 0, 1, 7, 8, 7, 9>>
      [] name = "requestNextTrackSegment" -> <<0, 2, 0, 0, 0, 1, 8, 1, 8, 0>>
      [] name = "whoAmI"                  -> <<0, 2, 0, 0, 0, 1, 11, 15, 11, 14>>

\* A variant of the checksum of read_track that leaves the count out.
read_track_checksum_no_count(payload, num_of_tracks, ids) ==
    checkersum(payload \o ids)

\* The checksum read_track computes over payload, count and ids.
read_track_checksum(payload, num_of_tracks, ids) ==
    checkersum(payload \o num_of_tracks \o ids)

\* GB580.read_track: the text substituted into
\* '0200%(payload)s%(numberOfTracks)s%(trackIds)s%(checksum)s' for one id.
getTracks(track_id) ==
    LET ids           == dec2hex(track_id, 4)
        payload       == dec2hex(1 * 512 + 896, 4)
        num_of_tracks == dec2hex(1, 4)
    IN  <<0, 2, 0, 0>> \o payload \o num_of_tracks \o ids
            \o read_track_checksum(payload, num_of_tracks, ids)

\* The header attributes before read_track ran.
NoDate ==
    [year |-> NoneVal, month |-> NoneVal, day |-> NoneVal,
     hour |-> NoneVal, minute |-> NoneVal, second |-> NoneVal]

\* act_time before read_track ran.
NoTime == [s |-> NoneVal, t |-> NoneVal]

NoHeader ==
    [start_time |-> NoDate, track_pt_count |-> NoneVal, total_time |-> NoneVal,
     total_distance |-> NoneVal, num_of_laps |-> NoneVal,
     total_calories |-> NoneVal, max_speed |-> NoneVal, max_hr |-> NoneVal,
     avg_hr |-> NoneVal, total_ascend |-> NoneVal, total_descend |-> NoneVal,
     min_altitude |-> NoneVal, max_altitude |-> NoneVal,
     avg_cadence |-> NoneVal, max_cadence |-> NoneVal, avg_power |-> NoneVal,
     max_power |-> NoneVal]

\* How far process_track_header gets: 0 the date is refused (ValueError of
\* datetime), 1 int() fails on max_hr, 2 int() fails on avg_hr, 3 it returns.
HeaderStage(data) ==
    IF ~ValidDateTime(read_datetime(data)) THEN 0
    ELSE IF int16(PySlice(data, 64, 66)) = IntErr THEN 1
    ELSE IF int16(PySlice(data, 66, 68)) = IntErr THEN 2
    ELSE 3

\* GB580.process_track_header(response): the attributes are assigned in order
\* until an exception leaves; total_time in 0.1 s, max_speed in 0.01 km/h.
process_track_header(old, old_act, response) ==
    LET data  == PyFrom(response, 6)
        stage == HeaderStage(data)
        set(k, new, prev) == IF stage >= k THEN new ELSE prev
    IN  [failed |-> stage < 3,
         hdr |->
           [start_time     |-> set(1, read_datetime(data), old.start_time),
            track_pt_count |-> set(1, read_int16(PyFrom(data, 12)), old.track_pt_count),
            total_time     |-> set(1, read_int32(PyFrom(data, 16)), old.total_time),
            total_distance |-> set(1, read_int32(PyFrom(data, 24)), old.total_distance),
            num_of_laps    |-> set(1, read_int16(PyFrom(data, 32)), old.num_of_laps),
            total_calories |-> set(1, read_int16(PyFrom(data, 48)), old.total_calories),
            max_speed      |-> set(1, read_int32(PyFrom(data, 56)), old.max_speed),
            max_hr         |-> set(2, int16(PySlice(data, 64, 66)), old.max_hr),
            avg_hr         |-> set(3, int16(PySlice(data, 66, 68)), old.avg_hr),
            total_ascend   |-> set(3, read_int16(PyFrom(data, 68)), old.total_ascend),
            total_descend  |-> set(3, read_int16(PyFrom(data, 72)), old.total_descend),
            min_altitude   |-> set(3, read_int16(PyFrom(data, 76)), old.min_altitude),
            max_altitude   |-> set(3, read_int16(PyFrom(data, 80)), old.max_altitude),
            avg_cadence    |-> set(3, read_int16(PyFrom(data, 84)), old.avg_cadence),
            max_cadence    |-> set(3, read_int16(PyFrom(data, 88)), old.max_cadence),
            avg_power      |-> set(3, read_int16(PyFrom(data, 92)), old.avg_power),
            max_power      |-> set(3, read_int16(PyFrom(data, 96)), old.max_power)],
         act_time |-> IF stage = 3 THEN Instant(read_datetime(data)) ELSE old_act]

\* A variant of the lap loop with an if for the while: one lap at most.
lap_loop_once(data, offset, laps) ==
    IF offset <= Len(data) - TRACK_LAP_LEN
    THEN Append(laps, process_lap(PyFrom(data, offset)))
    ELSE laps

RECURSIVE lap_loop(_, _, _)
\* The loop of read_laps: laps appended while a whole lap is left.
lap_loop(data, offset, laps) ==
    IF offset <= Len(data) - TRACK_LAP_LEN
    THEN lap_loop(data, offset + TRACK_LAP_LEN,
                  Append(laps, process_lap(PyFrom(data, offset))))
    ELSE laps

RECURSIVE point_loop(_, _, _, _)
\* The inner loop of read_trackpoints: points appended while a whole point is
\* left, the running time threaded through.
point_loop(data, offset, points, act) ==
    IF offset <= Len(data) - TRACK_POINT_LEN
    THEN LET r == process_trackpoint(PyFrom(data, offset), act)
         IN  point_loop(data, offset + TRACK_POINT_LEN, Append(points, r.tp), r.act_time)
    ELSE [points |-> points, act_time |-> act]

\* A variant of one turn of read_trackpoints that starts the list again when a
\* segment brings no payload.
read_trackpoints_segment_reset(data, points, act) ==
    IF Len(data) <= TRACK_HEADER_LEN
    THEN [points |-> <<>>, act_time |-> act]
    ELSE point_loop(data, TRACK_HEADER_LEN, points, act)

\* read_trackpoints: what one turn of the outer loop does with a segment.
read_trackpoints_segment(data, points, act) ==
    point_loop(data, TRACK_HEADER_LEN, points, act)

\* A variant of the test of read_trackpoints that forgets the status byte.
more_data_no_status(data) == Len(data) = SECTION_LEN

\* A variant of the test of read_trackpoints that takes the last 2 bytes
\* (4 digits) for the status.
more_data_two_bytes(data) == Len(data) - 4 = SECTION_LEN

\* A variant of the test of read_trackpoints that asks again after an empty
\* read.
more_data_retry(data) == Len(data) - 2 = SECTION_LEN \/ Len(data) = 0

\* read_trackpoints: whether the next segment is requested.
more_data(data) == Len(data) - 2 = SECTION_LEN

\* One catalog entry as process_tracklist decodes it.
tracklist_entry(track) ==
    [date        |-> read_datetime(track),
     trackpoints |-> hex2dec(PySlice(track, 14, 16) \o PySlice(track, 12, 14)),
     duration    |-> hex2dec(PySlice(track, 20, 22) \o PySlice(track, 18, 20)
                                \o PySlice(track, 16, 18)),
     laps        |-> hex2dec(PySlice(track, 30, 34)),
     id          |-> hex2dec(PySlice(track, 38, 42)),
     distance    |-> hex2dec(PySlice(track, 28, 30) \o PySlice(track, 26, 28)
                                \o PySlice(track, 24, 26)),
     calories    |-> 0,
     topspeed    |-> 0]

RECURSIVE tracklist_error(_)
\* The exception that ends the loop of process_tracklist, if any: an entry of
\* another length leaves t empty and the print raises KeyError; a date
\* datetime refuses raises ValueError.
tracklist_error(chunks) ==
    IF chunks = <<>> THEN "none"
    ELSE IF Len(Head(chunks)) \notin {44, 48} THEN "KeyError"
    ELSE IF ~ValidDateTime(read_datetime(Head(chunks))) THEN "ValueError"
    ELSE tracklist_error(Tail(chunks))

\* GB580.process_tracklist: the chunks it returns.
process_tracklist(tracklist) == chop(PySliceNeg(tracklist, 6, 2), 48)

NoTracks == [isNone |-> TRUE, items |-> <<>>]

\* ------------------------------------------------------------------------
\* State

VARIABLES
    pc,            \* where the session stands
    frame,         \* the bytes of the last frame written to the channel
    pending,       \* commands written whose response has not been read
    reads,         \* reads performed in the session
    lastLen,       \* bytes the last read received
    error,         \* the exception that ended the session, "none" if none
    tracks,        \* what read_tracklist returned to __main__
    hdr,           \* the header attributes of the GB580 object
    act_time,      \* GB580.act_time, the running time
    track_laps,    \* GB580.track_laps
    track_points,  \* GB580.track_points
    segWrites,     \* requestNextTrackSegment writes of the current retrieval
    segReads,      \* reads of the current retrieval
    fullSeen,      \* full sections the device answered in the current retrieval
    markLaps,      \* Len(track_laps) when the current track was selected
    markPts,       \* Len(track_points) when the current track was selected
    selections,    \* tracks selected with read_track so far
    call           \* the last direct call of a decoding function: name, argument, result

vars ==
    <<pc, frame, pending, reads, lastLen, error, tracks, hdr, act_time,
      track_laps, track_points, segWrites, segReads, fullSeen, markLaps,
      markPts, selections, call>>

io == <<frame, pending, reads, lastLen>>

gb == <<hdr, act_time, track_laps, track_points>>

ghost == <<segWrites, segReads, fullSeen, markLaps, markPts, selections>>

\* No decoding function was called directly.
NoCall == [fn |-> "none", arg |-> <<>>, ret |-> <<>>, err |-> "none"]

\* GB580.__init__ and the start of __main__.
Init ==
    /\ pc = "get_model"
    /\ frame = <<>>
    /\ pending = 0
    /\ reads = 0
    /\ lastLen = 0
    /\ error = "none"
    /\ tracks = NoTracks
    /\ hdr = NoHeader
    /\ act_time = NoTime
    /\ track_laps = <<>>
    /\ track_points = <<>>
    /\ segWrites = 0
    /\ segReads = 0
    /\ fullSeen = 0
    /\ markLaps = 0
    /\ markPts = 0
    /\ selections = 0
    /\ call = NoCall

\* Serial.write_serial: the command's text, converted, goes to the channel.
write_serial(text) ==
    /\ frame' = hex2chr(text)
    /\ pending' = pending + 1
    /\ UNCHANGED <<reads, lastLen>>

\* Serial.read_serial: the blocking read returns what arrived, up to the size
\* asked for, after the timeout at the latest.
read_serial(resp, size) ==
    /\ reads < MaxReads
    /\ Len(resp) <= size
    /\ reads' = reads + 1
    /\ pending' = pending - 1
    /\ lastLen' = Len(resp)
    /\ UNCHANGED frame

\* get_model, the write.
GetModelWrite ==
    /\ pc = "get_model"
    /\ write_serial(COMMANDS("whoAmI"))
    /\ pc' = "get_model_read"
    /\ UNCHANGED <<error, tracks, gb, ghost>>
    /\ UNCHANGED call

\* get_model, the read: the name is printed, nothing is kept.
GetModelRead ==
    /\ pc = "get_model_read"
    /\ \E resp \in ModelResponses : read_serial(resp, DEFAULT_READ_SIZE)
    /\ pc' = "read_tracklist"
    /\ UNCHANGED <<error, tracks, gb, ghost>>
    /\ UNCHANGED call

\* read_tracklist, the write.
TracklistWrite ==
    /\ pc = "read_tracklist"
    /\ write_serial(COMMANDS("getTracklist"))
    /\ pc' = "read_tracklist_read"
    /\ UNCHANGED <<error, tracks, gb, ghost>>
    /\ UNCHANGED call

\* read_tracklist, the read and process_tracklist.
TracklistRead ==
    /\ pc = "read_tracklist_read"
    /\ \E resp \in TracklistResponses :
         LET tracklist == chr2hex(resp)
             chunks    == process_tracklist(tracklist)
             err       == IF Len(tracklist) > 8 THEN tracklist_error(chunks) ELSE "none"
         IN  /\ read_serial(resp, DEFAULT_READ_SIZE)
             /\ error' = err
             /\ tracks' = IF Len(tracklist) > 8 /\ err = "none"
                          THEN [isNone |-> FALSE, items |-> chunks]
                          ELSE tracks
             /\ pc' = IF err = "none" THEN "read_track" ELSE "failed"
    /\ UNCHANGED <<gb, ghost>>
    /\ UNCHANGED call

\* read_track, the write: a track is selected.  Another selection needs the
\* reads of a whole retrieval left.
ReadTrackWrite ==
    /\ pc \in {"read_track", "retrieved"}
    /\ reads + 3 <= MaxReads
    /\ \E track_id \in TrackIds : write_serial(getTracks(track_id))
    /\ pc' = "read_track_read"
    /\ selections' = selections + 1
    /\ markLaps' = Len(track_laps)
    /\ markPts' = Len(track_points)
    /\ UNCHANGED <<error, tracks, gb, segWrites, segReads, fullSeen>>
    /\ UNCHANGED call

\* read_track, the read and process_track_header.
ReadTrackRead ==
    /\ pc = "read_track_read"
    /\ \E resp \in TrackResponses :
         LET r == process_track_header(hdr, act_time, chr2hex(resp))
         IN  /\ read_serial(resp, TRACK_READ_SIZE)
             /\ hdr' = r.hdr
             /\ act_time' = r.act_time
             /\ error' = IF r.failed THEN "ValueError" ELSE error
             /\ pc' = IF r.failed THEN "failed" ELSE "read_laps"
    /\ UNCHANGED <<tracks, track_laps, track_points, ghost>>
    /\ UNCHANGED call

\* A variant of read_laps that reads without a request of its own.
LapsWrite_no_request ==
    /\ pc = "read_laps"
    /\ pc' = "read_laps_read"
    /\ segWrites' = 0
    /\ segReads' = 0
    /\ fullSeen' = 0
    /\ UNCHANGED <<io, error, tracks, gb, markLaps, markPts, selections>>
    /\ UNCHANGED call

\* read_laps, the write.
LapsWrite ==
    /\ pc = "read_laps"
    /\ write_serial(COMMANDS("requestNextTrackSegment"))
    /\ pc' = "read_laps_read"
    /\ segWrites' = 1
    /\ segReads' = 0
    /\ fullSeen' = 0
    /\ UNCHANGED <<error, tracks, gb, markLaps, markPts, selections>>
    /\ UNCHANGED call

\* read_laps, the read and the lap loop.
LapsRead ==
    /\ pc = "read_laps_read"
    /\ \E resp \in LapResponses :
         LET data == PyFrom(chr2hex(resp), 6)
         IN  /\ read_serial(resp, TRACK_READ_SIZE)
             /\ track_laps' = lap_loop(data, TRACK_HEADER_LEN, track_laps)
             /\ fullSeen' = fullSeen + (IF Len(resp) = FullResponseLen THEN 1 ELSE 0)
    /\ segReads' = segReads + 1
    /\ pc' = "read_trackpoints"
    /\ UNCHANGED <<error, tracks, hdr, act_time, track_points, segWrites,
                   markLaps, markPts, selections>>
    /\ UNCHANGED call

\* read_trackpoints, the first write.
PointsWrite ==
    /\ pc = "read_trackpoints"
    /\ write_serial(COMMANDS("requestNextTrackSegment"))
    /\ pc' = "read_trackpoints_read"
    /\ segWrites' = 1
    /\ segReads' = 0
    /\ fullSeen' = 0
    /\ UNCHANGED <<error, tracks, gb, markLaps, markPts, selections>>
    /\ UNCHANGED call

\* What the device may answer to a point request: nothing (timeout), a last
\* segment, or, while reads are left for the rest, a full section.
PointResponses ==
    {<<>>} \cup {PointSegment(s) : s \in LastShapes}
        \cup (IF reads + 2 <= MaxReads THEN {PointSegment(FullShape)} ELSE {})

\* read_trackpoints, one turn of the outer loop up to its if: the read, the
\* point loop, and the choice between another request and the break.
PointsRead ==
    /\ pc = "read_trackpoints_read"
    /\ \E resp \in PointResponses :
         LET data == PyFrom(chr2hex(resp), 6)
             r    == read_trackpoints_segment(data, track_points, act_time)
         IN  /\ read_serial(resp, TRACK_READ_SIZE)
             /\ track_points' = r.points
             /\ act_time' = r.act_time
             /\ pc' = IF more_data(data) THEN "request_next" ELSE "retrieved"
             /\ fullSeen' = fullSeen + (IF Len(resp) = FullResponseLen THEN 1 ELSE 0)
    /\ segReads' = segReads + 1
    /\ UNCHANGED <<error, tracks, hdr, track_laps, segWrites, markLaps, markPts,
                   selections>>
    /\ UNCHANGED call

\* read_trackpoints, the request inside the loop.
PointsRequestNext ==
    /\ pc = "request_next"
    /\ write_serial(COMMANDS("requestNextTrackSegment"))
    /\ pc' = "read_trackpoints_read"
    /\ segWrites' = segWrites + 1
    /\ UNCHANGED <<error, tracks, gb, segReads, fullSeen, markLaps, markPts,
                   selections>>
    /\ UNCHANGED call

Next ==
    \/ GetModelWrite
    \/ GetModelRead
    \/ TracklistWrite
    \/ TracklistRead
    \/ ReadTrackWrite
    \/ ReadTrackRead
    \/ LapsWrite
    \/ LapsRead
    \/ PointsWrite
    \/ PointsRead
    \/ PointsRequestNext

Spec == Init /\ [][Next]_vars

\* The session with the progress the loop of read_trackpoints makes: the
\* blocking read returns after the channel's timeout (2 s) at the latest, and
\* the request inside the loop follows its test at once.
FairSpec == Spec /\ WF_vars(PointsRead) /\ WF_vars(PointsRequestNext)

\* ------------------------------------------------------------------------
\* The decoding functions called directly, as a program that imports the
\* module may call them, on bytes a device may have sent.  No session runs.

session ==
    <<pc, frame, pending, reads, lastLen, error, tracks, hdr, act_time,
      track_laps, track_points, segWrites, segReads, fullSeen, markLaps,
      markPts, selections>>

\* A catalog response of n bytes: the status byte and bytes that differ from
\* their neighbours.
CatalogBytes(n) == [i \in 1..n |-> IF i = 1 THEN 128 ELSE (37 * i) % 256]

\* GB580.process_tracklist(chr2hex(response)): the chunks, and the exception
\* that ends the loop over them.
CallProcessTracklist ==
    /\ \E n \in 0..MaxCatalogLen :
         LET chunks == process_tracklist(chr2hex(CatalogBytes(n)))
         IN  call' = [fn  |-> "process_tracklist", arg |-> CatalogBytes(n),
                      ret |-> chunks, err |-> tracklist_error(chunks)]
    /\ UNCHANGED session

\* Values handed to the encoder of read_track: 16-bit ones, and 32-bit ones
\* below 2^31.
Values16 == {0, 1, 8, 255, 256, 257, 1408, 4660, 43690, 65535}

Values32 == {0, 1, 258, 65536, 16909060, 2147483647}

\* read_int16 applied to the text dec2hex(x, 4), the call read_track makes to
\* encode the payload length, the count and the track id.
CallInt16OfDec2hex ==
    /\ \E x \in Values16 :
         call' = [fn  |-> "read_int16(dec2hex)", arg |-> x,
                  ret |-> read_int16(dec2hex(x, 4)), err |-> "none"]
    /\ UNCHANGED session

\* read_int32 applied to the text dec2hex(x, 8).
CallInt32OfDec2hex ==
    /\ \E x \in Values32 :
         call' = [fn  |-> "read_int32(dec2hex)", arg |-> x,
                  ret |-> read_int32_wide(dec2hex(x, 8)), err |-> "none"]
    /\ UNCHANGED session

\* Point indexes a lap record may carry.
LapIndexes == {0, 270, 1845, 1846, 2000, 65535}

\* A 40-byte lap record: the first lap of the documented response with its
\* two point indexes replaced.
LapRecord(start, end) ==
    SubSeq(DocLapResponse, 28, 63)
        \o <<start % 256, start \div 256, end % 256, end \div 256>>

\* TrackLap.process_lap on the text of one lap record, as read_laps calls it.
CallProcessLap ==
    /\ \E start \in LapIndexes, end \in LapIndexes :
         call' = [fn  |-> "process_lap", arg |-> LapRecord(start, end),
                  ret |-> process_lap(chr2hex(LapRecord(start, end))),
                  err |-> "none"]
    /\ UNCHANGED session

\* Point segments of 0, 1, 2 or 63 whole points, slack bytes short of one
\* more point, and the checksum byte.
SegmentShapes ==
    { [n |-> n, slack |-> slack, trail |-> 1] :
        n \in {0, 1, 2, TRACKPTS_PER_SECTION}, slack \in {0, 5, 30, 31} }

\* The start of the documented track as running time.
DocStart == Instant(read_datetime(chr2hex(SubSeq(DocLapResponse, 4, 9))))

\* One turn of the loop of read_trackpoints on a segment as read_serial(2075)
\* returns it, the list of points empty before.
CallReadTrackpointsSegment ==
    /\ \E shape \in SegmentShapes :
         LET resp == Take(PointSegment(shape), TRACK_READ_SIZE)
             r    == read_trackpoints_segment(PyFrom(chr2hex(resp), 6), <<>>, DocStart)
         IN  call' = [fn  |-> "read_trackpoints_segment", arg |-> resp,
                      ret |-> r.points, err |-> "none"]
    /\ UNCHANGED session

\* Catalog entries: the documented one with the high byte of its total time
\* (byte 11), total distance (15), lap count (17), point index (19) and
\* track id (21) replaced.
CatalogEntries ==
    { [DocCatalogEntry EXCEPT ![12] = b11, ![16] = b15, ![18] = b17,
                              ![20] = b19, ![22] = b21] :
        b11 \in {0, 1}, b15 \in {0, 1}, b17 \in {0, 1}, b19 \in {0, 1},
        b21 \in {0, 1} }

\* The body of the loop of process_tracklist on one 24-byte entry.
CallTracklistEntry ==
    /\ \E entry \in CatalogEntries :
         call' = [fn  |-> "tracklist_entry", arg |-> entry,
                  ret |-> tracklist_entry(chr2hex(entry)),
                  err |-> tracklist_error(<<chr2hex(entry)>>)]
    /\ UNCHANGED session

\* Point records: the documented one with the most significant byte of its
\* latitude (byte 3) and of its longitude (byte 7) replaced.
PointRecords ==
    { [DevicePoint(1) EXCEPT ![4] = lat, ![8] = lon] :
        lat \in {2, 127, 128, 254, 255}, lon \in {1, 127, 128, 254, 255} }

\* TrackPoint.process_trackpoint on the text of one point record, as
\* read_trackpoints calls it.
CallProcessTrackpoint ==
    /\ \E point \in PointRecords :
         call' = [fn  |-> "process_trackpoint", arg |-> point,
                  ret |-> process_trackpoint(chr2hex(point), DocStart).tp,
                  err |-> "none"]
    /\ UNCHANGED session

\* The 6 date bytes of a header: the documented date, on its day or on the
\* first of the month, with every hour the device's clock shows.
DateBytes ==
    { <<14, 10, day, hour, 42, 44>> : day \in {1, 29}, hour \in 0..23 }

\* Utilities.read_datetime on the text of the date bytes; datetime refuses
\* arguments that are no date and time with ValueError.
CallReadDatetime ==
    /\ \E date \in DateBytes :
         LET d == read_datetime(chr2hex(date))
         IN  call' = [fn  |-> "read_datetime", arg |-> date, ret |-> d,
                      err |-> IF ValidDateTime(d) THEN "none" ELSE "ValueError"]
    /\ UNCHANGED session

DecodeNext ==
    \/ CallProcessTracklist
    \/ CallInt16OfDec2hex
    \/ CallInt32OfDec2hex
    \/ CallProcessLap
    \/ CallReadTrackpointsSegment
    \/ CallTracklistEntry
    \/ CallProcessTrackpoint
    \/ CallReadDatetime

DecodeSpec == Init /\ [][DecodeNext]_vars

\* ------------------------------------------------------------------------
\* Properties

RECURSIVE XorAll(_)
XorAll(bytes) == IF bytes = <<>> THEN 0 ELSE BitXor(Head(bytes), XorAll(Tail(bytes)))

Front(s) == SubSeq(s, 1, Len(s) - 1)

\* The positions after read_track returned for the selected track.
RetrievalPcs ==
    {"read_laps", "read_laps_read", "read_trackpoints", "read_trackpoints_read",
     "request_next", "retrieved"}

\* The positions of read_trackpoints after its first write, and after it.
PointPcs == {"read_trackpoints_read", "request_next", "retrieved"}

\* C1 as stated: the last byte of every frame written is the XOR of all the
\* bytes before it.
C1_ChecksumOfAllPreceding ==
    frame # <<>> => frame[Len(frame)] = XorAll(Front(frame)) % 256

\* C1 amended: the last byte of every frame written is the XOR of all the
\* bytes before it except the leading start byte 0x02.
C1_ChecksumAfterStartByte ==
    frame # <<>> =>
        /\ frame[1] = 2
        /\ frame[Len(frame)] = XorAll(Tail(Front(frame))) % 256

\* C1 witness: the getTracks frame for track id 4660 (0x1234) was written.
C1_Witness ==
    /\ Len(frame) = 9
    /\ frame[7] = 18
    /\ frame[8] = 52

RECURSIVE SumIntervals(_, _)
\* The intervals of the points lo..hi, in 0.1 s, added up (by halves).
SumIntervals(lo, hi) ==
    IF lo > hi THEN 0
    ELSE IF lo = hi THEN track_points[lo].interval_time
    ELSE LET mid == (lo + hi) \div 2
         IN  SumIntervals(lo, mid) + SumIntervals(mid + 1, hi)

RECURSIVE StampsIn(_, _, _, _, _)
\* For the points lo..hi, before == the intervals added up ahead of lo since
\* t0: the timestamp of every point is t0 plus the intervals up to it, exactly
\* or cut to its whole second.
StampsIn(lo, hi, t0, before, exact) ==
    IF lo > hi THEN TRUE
    ELSE IF lo = hi
    THEN LET now == AddTenths(t0, before + track_points[lo].interval_time)
         IN  IF exact
             THEN now = [s |-> track_points[lo].timestamp, t |-> 0]
             ELSE now.s = track_points[lo].timestamp
    ELSE LET mid == (lo + hi) \div 2
         IN  /\ StampsIn(lo, mid, t0, before, exact)
             /\ StampsIn(mid + 1, hi, t0, before + SumIntervals(lo, mid), exact)

\* The points of the selected track carry the timestamps of the prefix sums
\* and act_time is the start time plus all their intervals.
StampsFrom(first, t0, exact) ==
    /\ StampsIn(first, Len(track_points), t0, 0, exact)
    /\ act_time = AddTenths(t0, SumIntervals(first, Len(track_points)))

\* C2 as stated: the timestamp of the i-th point of the selected track is
\* T0 + d1 + ... + di exactly, and the running time carried on is that value.
C2_StampsArePrefixSums ==
    pc \in PointPcs => StampsFrom(markPts + 1, Instant(hdr.start_time), TRUE)

\* C2 amended: the running time carried after the i-th point is
\* T0 + d1 + ... + di exactly, and the timestamp of the point is that value
\* cut to its whole second.
C2_StampsAreWholeSeconds ==
    pc \in PointPcs => StampsFrom(markPts + 1, Instant(hdr.start_time), FALSE)

\* C2 witness: a retrieval ended with at least two points of the selected
\* track and a running time that is not on a whole second.
C2_Witness ==
    /\ pc = "retrieved"
    /\ Len(track_points) >= markPts + 2
    /\ act_time.t # 0

\* C3: after n full sections and one other answer the controller has written
\* requestNextTrackSegment n+1 times and read n+1 times and stands still; it
\* asks again exactly after a full section.
C3_SegmentCount ==
    /\ pc = "retrieved" =>
          /\ lastLen # FullResponseLen
          /\ segWrites = fullSeen + 1
          /\ segReads = fullSeen + 1
    /\ pc = "request_next" =>
          /\ lastLen = FullResponseLen
          /\ segWrites = fullSeen
          /\ segReads = fullSeen

\* C3 witness: a retrieval ended by a shorter segment after two full sections.
C3_Witness ==
    /\ pc = "retrieved"
    /\ fullSeen = 2
    /\ lastLen > 0

\* C4: writes and reads alternate, a write first: never two commands
\* outstanding, never a read with none outstanding, and a read is what the
\* session waits for exactly while one is outstanding.
C4_Alternation ==
    /\ pending \in {0, 1}
    /\ pending = 1 <=>
         pc \in {"get_model_read", "read_tracklist_read", "read_track_read",
                 "read_laps_read", "read_trackpoints_read"}

\* C4 witness: a whole session with a continued point retrieval is over.
C4_Witness ==
    /\ pc = "retrieved"
    /\ fullSeen >= 1
    /\ reads >= 6
    /\ pending = 0

\* C5 as stated: after the retrieval of a newly selected track, track_laps and
\* track_points hold only records appended since that selection.
C5_OnlyNewTrack ==
    (pc = "retrieved" /\ selections >= 2) => (markLaps = 0 /\ markPts = 0)

\* Whole laps in a response of so many bytes: those that fit behind the
\* 3 status bytes and the 24-byte header echo.
LapsIn(len) ==
    IF 2 * len - 6 >= TRACK_HEADER_LEN + TRACK_LAP_LEN
    THEN (2 * len - 6 - TRACK_HEADER_LEN) \div TRACK_LAP_LEN
    ELSE 0

\* C6 as stated: after a full-length lap segment the next segment is requested
\* by lap retrieval.
C6_LapContinuation ==
    (pc = "read_trackpoints" /\ lastLen = FullResponseLen) => segWrites >= 2

\* C6 amended: lap retrieval is one request and one read, whatever the length
\* of the response, and appends the whole laps of that one response.
C6_LapsSingleExchange ==
    pc = "read_trackpoints" =>
        /\ segWrites = 1
        /\ segReads = 1
        /\ Len(track_laps) = markLaps + LapsIn(lastLen)

\* C6 witness: read_laps returned after a full-length response.
C6_Witness ==
    /\ pc = "read_trackpoints"
    /\ lastLen = FullResponseLen
    /\ Len(track_laps) = markLaps + 50

\* C7 as stated: a read that received no byte is signalled as a Timeout error.
C7_TimeoutSignalled ==
    (reads > 0 /\ lastLen = 0) => error = "Timeout"

\* C8 as stated: header decoding succeeds only on a response that holds the
\* whole header record (3 status bytes and the 50 bytes the decoder reads).
C8_ShortHeaderFails ==
    pc = "read_laps" => 2 * lastLen - 6 >= 100

IsPrefix(s, t) == Len(s) <= Len(t) /\ SubSeq(t, 1, Len(s)) = s

\* What a step of a retrieval keeps.
RetrievalKeeps ==
    pc \in RetrievalPcs =>
        /\ IsPrefix(track_laps, track_laps')
        /\ IsPrefix(track_points, track_points')
        /\ (track_points' = track_points => act_time' = act_time)

\* C9: no step of a retrieval removes, reorders or changes a lap or a point
\* already appended, and a step that appends no point leaves the running time.
C9_NoRollback == [][RetrievalKeeps]_vars

\* C9 witness: a point retrieval ended by a timeout after a full section.
C9_Witness ==
    /\ pc = "retrieved"
    /\ lastLen = 0
    /\ fullSeen >= 1
    /\ Len(track_points) >= markPts + TRACKPTS_PER_SECTION

\* C10: the documented header sample decodes to 2014-10-29, hour 18 less the
\* offset, 42:44, 1846 points, 39012 tenths of a second, 30238 m and 8 laps.
C10_DocumentedHeader ==
    (pc = "read_laps" /\ lastLen = 54) =>
        /\ hdr.start_time = [year |-> 2014, month |-> 10, day |-> 29,
                             hour |-> 18 - TIME_OFFSET, minute |-> 42,
                             second |-> 44]
        /\ hdr.start_time.hour = 16
        /\ hdr.track_pt_count = 1846
        /\ hdr.total_time = 39012
        /\ hdr.total_distance = 30238
        /\ hdr.num_of_laps = 8

\* C10 witness: read_track returned after the documented header response.
C10_Witness ==
    /\ pc = "read_laps"
    /\ lastLen = 54

\* ------------------------------------------------------------------------
\* Properties of the decoding functions

RECURSIVE Concat(_)
Concat(chunks) == IF chunks = <<>> THEN <<>> ELSE Head(chunks) \o Concat(Tail(chunks))

\* C11: the chunks of process_tracklist, put together in order, are the
\* response without its first 3 bytes and its last byte, digit for digit;
\* every chunk but the last is 24 bytes (48 digits), the last is 1 to 24.
C11_ChunksRoundTrip ==
    call.fn = "process_tracklist" =>
        /\ Concat(call.ret) = chr2hex(SubSeq(call.arg, 4, Len(call.arg) - 1))
        /\ \A i \in 1..(Len(call.ret) - 1) : Len(call.ret[i]) = 48
        /\ Len(call.ret) > 0 => Len(call.ret[Len(call.ret)]) \in 1..48

\* A response of two whole entries and a part of a third.
C11_Witness ==
    /\ call.fn = "process_tracklist"
    /\ Len(call.ret) = 3
    /\ Len(call.ret[3]) < 48

\* The bytes of a number below 2^32, least significant first.
ByteOf(x, k) ==
    CASE k = 0 -> x % 256
      [] k = 1 -> (x \div 256) % 256
      [] k = 2 -> (x \div 65536) % 256
      [] k = 3 -> x \div 16777216

\* C12 (as the code has it): decoding the text dec2hex writes for x gives x
\* with its bytes in the opposite order, for 2 bytes with read_int16 and for
\* 4 bytes with read_int32; dec2hex writes the most significant byte first.
C12_DecodeReversesBytes ==
    /\ call.fn = "read_int16(dec2hex)" =>
          call.ret = 256 * ByteOf(call.arg, 0) + ByteOf(call.arg, 1)
    /\ call.fn = "read_int32(dec2hex)" =>
          /\ call.ret.hi = 256 * ByteOf(call.arg, 0) + ByteOf(call.arg, 1)
          /\ call.ret.lo = 256 * ByteOf(call.arg, 2) + ByteOf(call.arg, 3)

\* C12 (as stated): decoding the text dec2hex writes for x gives x.
C12_DecodeInvertsEncode ==
    /\ call.fn = "read_int16(dec2hex)" => call.ret = call.arg
    /\ call.fn = "read_int32(dec2hex)" =>
          /\ call.ret.hi = call.arg \div 65536
          /\ call.ret.lo = call.arg % 65536

\* The track id 8 of __main__, written 0008 and read back as 0x0800.
C12_Witness ==
    /\ call.fn = "read_int16(dec2hex)"
    /\ call.arg = 8
    /\ call.ret = 2048

\* The point count of the documented track header, the track of the laps.
DocPointCount ==
    process_track_header(NoHeader, NoTime, chr2hex(Take(DocLapResponse, 54))).hdr.track_pt_count

\* Bytes b[k+1], b[k+2] (and the next two) of a record as a little-endian number.
U16At(b, k) == b[k + 1] + 256 * b[k + 2]

U32At(b, k) == U16At(b, k) + 65536 * U16At(b, k + 2)

\* C13 (as the code has it): a decoded lap holds end_time and lap_time as
\* whole tenths of a second, and the two point indexes exactly as bytes 36-37
\* and 38-39 of the record give them; nothing is checked.
C13_LapFieldsAsSent ==
    call.fn = "process_lap" =>
        /\ call.ret.end_time = U32At(call.arg, 0)
        /\ call.ret.lap_time = U32At(call.arg, 4)
        /\ call.ret.end_time \in Nat /\ call.ret.lap_time \in Nat
        /\ call.ret.start_pt_index = U16At(call.arg, 36)
        /\ call.ret.end_pt_index = U16At(call.arg, 38)

\* C13 (as stated): whatever the bytes, start <= end <= point count.
C13_LapIndexesOrdered ==
    call.fn = "process_lap" =>
        /\ call.ret.start_pt_index <= call.ret.end_pt_index
        /\ call.ret.end_pt_index <= DocPointCount

\* A record whose start index is beyond its end index, decoded as it stands.
C13_Witness ==
    /\ call.fn = "process_lap"
    /\ call.ret.start_pt_index = 270
    /\ call.ret.end_pt_index = 0
    /\ call.ret.lap_time = 5721

\* C15: a segment whose payload, the response without its 3-byte prefix and
\* its trailer byte, is P bytes long yields floor((P - 24) / 32) points, none
\* when P < 56, at most 63, and no decoded record reaches into the trailer.
C15_PointsOfPayload ==
    call.fn = "read_trackpoints_segment" =>
        LET P == Len(call.arg) - 3 - 1
        IN  /\ Len(call.ret) = (IF P < 56 THEN 0 ELSE (P - 24) \div 32)
            /\ Len(call.ret) <= TRACKPTS_PER_SECTION
            /\ 24 + 32 * Len(call.ret) <= Max(P, 24)

\* C17: every numeric field of a catalog entry is the little-endian value of
\* the bytes at its offset in the layout: point count 6-7, total time 8-11,
\* total distance 12-15, lap count 16-17, track id 20-21.
C17_FieldsAtLayoutOffsets ==
    call.fn = "tracklist_entry" =>
        /\ call.ret.trackpoints = U16At(call.arg, 6)
        /\ call.ret.duration = U32At(call.arg, 8)
        /\ call.ret.distance = U32At(call.arg, 12)
        /\ call.ret.laps = U16At(call.arg, 16)
        /\ call.ret.id = U16At(call.arg, 20)

\* C18: latitude and longitude are signed 32-bit numbers of 1e-6 degree: a
\* field with its top bit set is decoded below zero, so no decoded coordinate
\* is above 2^31 - 1 (the decoded number is 65536 * hi + lo).
C18_CoordinatesSigned ==
    call.fn = "process_trackpoint" =>
        /\ call.ret.latitude.hi <= 32767
        /\ call.ret.longitude.hi <= 32767

\* C19: read_datetime yields a valid instant for every hour 0..23 of the
\* device: the offset never leaves an hour outside 0..23 and no call fails.
C19_EveryHourDecodes ==
    call.fn = "read_datetime" =>
        /\ call.err = "none"
        /\ call.ret.hour \in 0..23

\* ------------------------------------------------------------------------
\* Properties of the point retrieval

C16_PointRetrievalEnds ==
    (pc \in {"read_trackpoints_read", "request_next"}) ~> (pc = "retrieved")

\* Two full sections, then an empty read: the retrieval ended with no request
\* after it.
C16_Witness ==
    /\ pc = "retrieved"
    /\ fullSeen = 2
    /\ segReads = 3
    /\ segWrites = 3
    /\ lastLen = 0
    /\ pending = 0

====
